---- MODULE Spec2Model ----
(***************************************************************************)
(* The Session Manager of src/src/contexts/AuthContext.tsx (AuthProvider). *)
(*                                                                         *)
(* JavaScript runs each callback to completion, so one action is one       *)
(* synchronous segment of the code: from the settling of an awaited call   *)
(* to the next await (or to the end of the async function).  The state     *)
(* setters of one segment are applied together (React batches them), so    *)
(* consumers observe the state between segments only.  A provider call     *)
(* that never settles is a behaviour in which its settling action is never *)
(* taken.                                                                  *)
(***************************************************************************)
EXTENDS Naturals, FiniteSets, Sequences

\* ---------------------------------------------------------------- bounds
MaxUsers == 2       \* user ids known to the Identity Provider
MaxHandlers == 2    \* change-event handlers awaiting their entitlement fetch
MaxCalls == 2       \* signIn/signUp/signOut calls in flight at the same time

\* ---------------------------------------------------------------- values
NoUser == 0
Users == 1..MaxUsers

\* A Session carries its User (Session.user); null is NoSession.
NoSession == [user |-> NoUser]
Sessions == {[user |-> u] : u \in Users}

\* The subscriptions table: the is_premium column of the row of user_id.
is_premium(userId) == userId = 1

\* How the awaited query of fetchPremiumStatus settles: with the row, with
\* data = null (no row, or an error value), or by throwing.
FetchOutcomes == {"data", "nodata", "throw"}

\* How an awaited Identity Provider call settles: resolved without error,
\* resolved with {error} set, or rejected (thrown).
CallOutcomes == {"ok", "error", "throw"}

Ops == {"signIn", "signUp", "signOut"}

NoCall == [op |-> "none", outcome |-> "none", toasts |-> <<>>, result |-> "none"]

\* No consumer has called useAuth yet.
NoUse == [called |-> FALSE, inside |-> FALSE, threw |-> FALSE,
          value |-> [k \in {} |-> FALSE]]

VARIABLES
    user,          \* useState<User | null>: NoUser or a user id
    session,       \* useState<Session | null>
    isLoading,     \* useState(true)
    isPremium,     \* useState(false)
    mounted,       \* the flag of the first effect
    subscribed,    \* the onAuthStateChange subscription is active
    timer,         \* loadingTimeout: "armed", "fired" or "cleared"
    pc,            \* checkSession: "getSession", "fetchPremium" or "done"
    pcUser,        \* the user id checkSession fetches the premium status of
    handlers,      \* per user id, the handlers awaiting fetchPremiumStatus
    calls,         \* per operation, the calls awaiting the Identity Provider
    lastCall,      \* the call that exited last: its toasts and its result
    established,   \* a change-event has set a user-bearing session
    lastUse        \* the outcome of the last useAuth() call of a consumer

vars == <<user, session, isLoading, isPremium, mounted, subscribed, timer,
          pc, pcUser, handlers, calls, lastCall, established, lastUse>>

authState == <<user, session, isLoading, isPremium>>

RECURSIVE Sum(_, _)
Sum(f, S) == IF S = {} THEN 0
             ELSE LET x == CHOOSE y \in S : TRUE IN f[x] + Sum(f, S \ {x})

HandlersInFlight == Sum(handlers, Users)
CallsInFlight == Sum(calls, Ops)

\* State after the first render and both effects have run: checkSession()
\* awaits getSession, the listener is subscribed, the timer is armed.
Init ==
    /\ user = NoUser
    /\ session = NoSession
    /\ isLoading = TRUE
    /\ isPremium = FALSE
    /\ mounted = TRUE
    /\ subscribed = TRUE
    /\ timer = "armed"
    /\ pc = "getSession"
    /\ pcUser = NoUser
    /\ handlers = [u \in Users |-> 0]
    /\ calls = [o \in Ops |-> 0]
    /\ lastCall = NoCall
    /\ established = FALSE
    /\ lastUse = NoUse

\* fetchPremiumStatus(userId) from its await on: the value of isPremium
\* after it returns.  A thrown query is caught and only logged.
fetchPremiumStatus(userId, outcome) ==
    IF outcome = "throw" THEN isPremium
    ELSE IF ~mounted THEN isPremium
    ELSE IF outcome = "data" THEN is_premium(userId)
    ELSE FALSE

\* ------------------------------------------------------------ checkSession
\* Mutant: a null session clears user, session and isPremium.
checkSessionResolves_ClearsOnNull(currentSession) ==
    /\ pc = "getSession"
    /\ IF ~mounted
       THEN /\ pc' = "done"
            /\ UNCHANGED <<authState, pcUser>>
       ELSE IF currentSession # NoSession
       THEN /\ session' = currentSession
            /\ user' = currentSession.user
            /\ pc' = "fetchPremium"
            /\ pcUser' = currentSession.user
            /\ UNCHANGED <<isLoading, isPremium>>
       ELSE /\ pc' = "done"
            /\ isLoading' = FALSE
            /\ session' = NoSession
            /\ user' = NoUser
            /\ isPremium' = FALSE
            /\ UNCHANGED pcUser
    /\ UNCHANGED <<mounted, subscribed, timer, handlers, calls, lastCall>>
    /\ UNCHANGED <<established, lastUse>>

\* Mutant: a result that arrives after the timer has fired is discarded.
checkSessionResolves_DropsLate(currentSession) ==
    /\ pc = "getSession"
    /\ IF ~mounted \/ timer = "fired"
       THEN /\ pc' = "done"
            /\ UNCHANGED <<authState, pcUser>>
       ELSE IF currentSession # NoSession
       THEN /\ session' = currentSession
            /\ user' = currentSession.user
            /\ pc' = "fetchPremium"
            /\ pcUser' = currentSession.user
            /\ UNCHANGED <<isLoading, isPremium>>
       ELSE /\ pc' = "done"
            /\ isLoading' = FALSE
            /\ UNCHANGED <<user, session, isPremium, pcUser>>
    /\ UNCHANGED <<mounted, subscribed, timer, handlers, calls, lastCall>>
    /\ UNCHANGED <<established, lastUse>>

\* getSession() resolves with currentSession.
checkSessionResolves(currentSession) ==
    /\ pc = "getSession"
    /\ IF ~mounted
       THEN /\ pc' = "done"
            /\ UNCHANGED <<authState, pcUser>>
       ELSE IF currentSession # NoSession
       THEN /\ session' = currentSession
            /\ user' = currentSession.user
            /\ pc' = "fetchPremium"
            /\ pcUser' = currentSession.user
            /\ UNCHANGED <<isLoading, isPremium>>
       ELSE /\ pc' = "done"
            /\ isLoading' = FALSE
            /\ UNCHANGED <<user, session, isPremium, pcUser>>
    /\ UNCHANGED <<mounted, subscribed, timer, handlers, calls, lastCall>>
    /\ UNCHANGED <<established, lastUse>>

\* Mutant: no finally block, isLoading is left as it is.
checkSessionThrows_NoFinally ==
    /\ pc = "getSession"
    /\ pc' = "done"
    /\ UNCHANGED <<user, session, isLoading, isPremium, pcUser, mounted,
                   subscribed, timer, handlers, calls, lastCall>>
    /\ UNCHANGED <<established, lastUse>>

\* getSession() throws: catch logs, finally clears isLoading.
checkSessionThrows ==
    /\ pc = "getSession"
    /\ pc' = "done"
    /\ isLoading' = IF mounted THEN FALSE ELSE isLoading
    /\ UNCHANGED <<user, session, isPremium, pcUser, mounted, subscribed,
                   timer, handlers, calls, lastCall>>
    /\ UNCHANGED <<established, lastUse>>

\* The fetchPremiumStatus awaited by checkSession settles; finally runs.
checkSessionFetchSettles(outcome) ==
    /\ pc = "fetchPremium"
    /\ isPremium' = fetchPremiumStatus(pcUser, outcome)
    /\ isLoading' = IF mounted THEN FALSE ELSE isLoading
    /\ pc' = "done"
    /\ pcUser' = NoUser
    /\ UNCHANGED <<user, session, mounted, subscribed, timer, handlers,
                   calls, lastCall>>
    /\ UNCHANGED <<established, lastUse>>

\* -------------------------------------------------------- onAuthStateChange
\* Mutant: the no-session branch forgets setIsPremium(false).
onAuthStateChange_KeepsPremium(currentSession) ==
    /\ subscribed
    /\ IF ~mounted
       THEN UNCHANGED <<authState, handlers>>
       ELSE IF currentSession # NoSession
       THEN /\ HandlersInFlight < MaxHandlers
            /\ session' = currentSession
            /\ user' = currentSession.user
            /\ handlers' = [handlers EXCEPT ![currentSession.user] = @ + 1]
            /\ UNCHANGED <<isLoading, isPremium>>
       ELSE /\ session' = NoSession
            /\ user' = NoUser
            /\ isLoading' = FALSE
            /\ UNCHANGED <<isPremium, handlers>>
    /\ UNCHANGED <<mounted, subscribed, timer, pc, pcUser, calls, lastCall>>
    /\ established' = (established \/ (mounted /\ currentSession # NoSession))
    /\ UNCHANGED lastUse

\* The Identity Provider delivers a change-event carrying currentSession.
onAuthStateChange(currentSession) ==
    /\ subscribed
    /\ IF ~mounted
       THEN UNCHANGED <<authState, handlers>>
       ELSE IF currentSession # NoSession
       THEN /\ HandlersInFlight < MaxHandlers
            /\ session' = currentSession
            /\ user' = currentSession.user
            /\ handlers' = [handlers EXCEPT ![currentSession.user] = @ + 1]
            /\ UNCHANGED <<isLoading, isPremium>>
       ELSE /\ session' = NoSession
            /\ user' = NoUser
            /\ isPremium' = FALSE
            /\ isLoading' = FALSE
            /\ UNCHANGED handlers
    /\ UNCHANGED <<mounted, subscribed, timer, pc, pcUser, calls, lastCall>>
    /\ established' = (established \/ (mounted /\ currentSession # NoSession))
    /\ UNCHANGED lastUse

\* Mutant: the handler ends without its setIsLoading(false).
onAuthStateChangeFetchSettles_KeepsLoading(userId, outcome) ==
    /\ handlers[userId] > 0
    /\ handlers' = [handlers EXCEPT ![userId] = @ - 1]
    /\ isPremium' = fetchPremiumStatus(userId, outcome)
    /\ UNCHANGED <<user, session, isLoading, mounted, subscribed, timer, pc,
                   pcUser, calls, lastCall>>
    /\ UNCHANGED <<established, lastUse>>

\* The fetchPremiumStatus awaited by a handler settles; the handler goes on
\* to its own write of isLoading.
onAuthStateChangeFetchSettles(userId, outcome) ==
    /\ handlers[userId] > 0
    /\ handlers' = [handlers EXCEPT ![userId] = @ - 1]
    /\ isPremium' = fetchPremiumStatus(userId, outcome)
    /\ isLoading' = IF mounted THEN FALSE ELSE isLoading
    /\ UNCHANGED <<user, session, mounted, subscribed, timer, pc, pcUser,
                   calls, lastCall>>
    /\ UNCHANGED <<established, lastUse>>

\* ----------------------------------------------------------- loadingTimeout
\* Mutant: the callback forgets setSession(null).
loadingTimeout_KeepsSession ==
    /\ timer = "armed"
    /\ timer' = "fired"
    /\ isLoading' = FALSE
    /\ user' = NoUser
    /\ UNCHANGED <<session, isPremium, mounted, subscribed, pc, pcUser,
                   handlers, calls, lastCall>>
    /\ UNCHANGED <<established, lastUse>>

\* Mutant: the callback forgets setIsLoading(false).
loadingTimeout_KeepsLoading ==
    /\ timer = "armed"
    /\ timer' = "fired"
    /\ user' = NoUser
    /\ session' = NoSession
    /\ UNCHANGED <<isLoading, isPremium, mounted, subscribed, pc, pcUser,
                   handlers, calls, lastCall>>
    /\ UNCHANGED <<established, lastUse>>

\* Mutant: the timer is an interval, its callback stays armed.
loadingTimeout_Repeats ==
    /\ timer = "armed"
    /\ isLoading' = FALSE
    /\ user' = NoUser
    /\ session' = NoSession
    /\ UNCHANGED <<timer, isPremium, mounted, subscribed, pc, pcUser,
                   handlers, calls, lastCall>>
    /\ UNCHANGED <<established, lastUse>>

\* The callback of setTimeout(..., 5000).
loadingTimeout ==
    /\ timer = "armed"
    /\ timer' = "fired"
    /\ isLoading' = FALSE
    /\ user' = NoUser
    /\ session' = NoSession
    /\ UNCHANGED <<isPremium, mounted, subscribed, pc, pcUser, handlers,
                   calls, lastCall>>
    /\ UNCHANGED <<established, lastUse>>

\* ------------------------------------------------- signIn, signUp, signOut
destructive(title) == [title |-> title, variant |-> "destructive"]
affirmative(title) == [title |-> title, variant |-> "default"]

\* signIn up to its await: setIsLoading(true), then the provider call.
signIn ==
    /\ mounted
    /\ CallsInFlight < MaxCalls
    /\ isLoading' = TRUE
    /\ calls' = [calls EXCEPT !["signIn"] = @ + 1]
    /\ UNCHANGED <<user, session, isPremium, mounted, subscribed, timer, pc,
                   pcUser, handlers, lastCall>>
    /\ UNCHANGED <<established, lastUse>>

\* Mutant: the catch toasts and swallows the error (as signOut does).
signInSettles_Swallows(outcome) ==
    /\ calls["signIn"] > 0
    /\ calls' = [calls EXCEPT !["signIn"] = @ - 1]
    /\ lastCall' =
         IF outcome = "ok"
         THEN [op |-> "signIn", outcome |-> outcome,
               toasts |-> <<affirmative("Welcome back!")>>,
               result |-> "returned"]
         ELSE [op |-> "signIn", outcome |-> outcome,
               toasts |-> <<destructive("Sign in failed")>>,
               result |-> "returned"]
    /\ isLoading' = FALSE
    /\ UNCHANGED <<user, session, isPremium, mounted, subscribed, timer, pc,
                   pcUser, handlers>>
    /\ UNCHANGED <<established, lastUse>>

\* signInWithPassword settles: an {error} is thrown into the catch, which
\* toasts and re-throws; finally clears isLoading.
signInSettles(outcome) ==
    /\ calls["signIn"] > 0
    /\ calls' = [calls EXCEPT !["signIn"] = @ - 1]
    /\ lastCall' =
         IF outcome = "ok"
         THEN [op |-> "signIn", outcome |-> outcome,
               toasts |-> <<affirmative("Welcome back!")>>,
               result |-> "returned"]
         ELSE [op |-> "signIn", outcome |-> outcome,
               toasts |-> <<destructive("Sign in failed")>>,
               result |-> "raised"]
    /\ isLoading' = FALSE
    /\ UNCHANGED <<user, session, isPremium, mounted, subscribed, timer, pc,
                   pcUser, handlers>>
    /\ UNCHANGED <<established, lastUse>>

\* signUp up to its await.
signUp ==
    /\ mounted
    /\ CallsInFlight < MaxCalls
    /\ isLoading' = TRUE
    /\ calls' = [calls EXCEPT !["signUp"] = @ + 1]
    /\ UNCHANGED <<user, session, isPremium, mounted, subscribed, timer, pc,
                   pcUser, handlers, lastCall>>
    /\ UNCHANGED <<established, lastUse>>

\* auth.signUp settles: the same shape as signIn.
signUpSettles(outcome) ==
    /\ calls["signUp"] > 0
    /\ calls' = [calls EXCEPT !["signUp"] = @ - 1]
    /\ lastCall' =
         IF outcome = "ok"
         THEN [op |-> "signUp", outcome |-> outcome,
               toasts |-> <<affirmative("Account created!")>>,
               result |-> "returned"]
         ELSE [op |-> "signUp", outcome |-> outcome,
               toasts |-> <<destructive("Sign up failed")>>,
               result |-> "raised"]
    /\ isLoading' = FALSE
    /\ UNCHANGED <<user, session, isPremium, mounted, subscribed, timer, pc,
                   pcUser, handlers>>
    /\ UNCHANGED <<established, lastUse>>

\* signOut up to its await.
signOut ==
    /\ mounted
    /\ CallsInFlight < MaxCalls
    /\ isLoading' = TRUE
    /\ calls' = [calls EXCEPT !["signOut"] = @ + 1]
    /\ UNCHANGED <<user, session, isPremium, mounted, subscribed, timer, pc,
                   pcUser, handlers, lastCall>>
    /\ UNCHANGED <<established, lastUse>>

\* Mutant: signOut clears user and session itself on success.
signOutSettles_ClearsUser(outcome) ==
    /\ calls["signOut"] > 0
    /\ calls' = [calls EXCEPT !["signOut"] = @ - 1]
    /\ lastCall' =
         IF outcome = "throw"
         THEN [op |-> "signOut", outcome |-> outcome,
               toasts |-> <<destructive("Sign out failed")>>,
               result |-> "returned"]
         ELSE [op |-> "signOut", outcome |-> outcome,
               toasts |-> <<affirmative("Signed out")>>,
               result |-> "returned"]
    /\ isLoading' = FALSE
    /\ user' = IF outcome = "throw" THEN user ELSE NoUser
    /\ session' = IF outcome = "throw" THEN session ELSE NoSession
    /\ UNCHANGED <<isPremium, mounted, subscribed, timer, pc, pcUser,
                   handlers>>
    /\ UNCHANGED <<established, lastUse>>

\* auth.signOut settles: its result is not read, so only a rejection reaches
\* the catch, which toasts and does not re-throw.
signOutSettles(outcome) ==
    /\ calls["signOut"] > 0
    /\ calls' = [calls EXCEPT !["signOut"] = @ - 1]
    /\ lastCall' =
         IF outcome = "throw"
         THEN [op |-> "signOut", outcome |-> outcome,
               toasts |-> <<destructive("Sign out failed")>>,
               result |-> "returned"]
         ELSE [op |-> "signOut", outcome |-> outcome,
               toasts |-> <<affirmative("Signed out")>>,
               result |-> "returned"]
    /\ isLoading' = FALSE
    /\ UNCHANGED <<user, session, isPremium, mounted, subscribed, timer, pc,
                   pcUser, handlers>>
    /\ UNCHANGED <<established, lastUse>>

\* ------------------------------------------------------------------ cleanup
\* Mutant: the second effect returns no cleanup, the timer stays armed.
cleanup_NoClearTimeout ==
    /\ mounted
    /\ mounted' = FALSE
    /\ subscribed' = FALSE
    /\ UNCHANGED <<timer, authState, pc, pcUser, handlers, calls, lastCall>>
    /\ UNCHANGED <<established, lastUse>>

\* Unmount: the cleanup functions of both effects.
cleanup ==
    /\ mounted
    /\ mounted' = FALSE
    /\ subscribed' = FALSE
    /\ timer' = IF timer = "armed" THEN "cleared" ELSE timer
    /\ UNCHANGED <<authState, pc, pcUser, handlers, calls, lastCall>>
    /\ UNCHANGED <<established, lastUse>>

Next ==
    \/ \E s \in Sessions \cup {NoSession} : checkSessionResolves(s)
    \/ checkSessionThrows
    \/ \E o \in FetchOutcomes : checkSessionFetchSettles(o)
    \/ \E s \in Sessions \cup {NoSession} : onAuthStateChange(s)
    \/ \E u \in Users, o \in FetchOutcomes : onAuthStateChangeFetchSettles(u, o)
    \/ loadingTimeout
    \/ signIn
    \/ \E o \in CallOutcomes : signInSettles(o)
    \/ signUp
    \/ \E o \in CallOutcomes : signUpSettles(o)
    \/ signOut
    \/ \E o \in CallOutcomes : signOutSettles(o)
    \/ cleanup

Spec == Init /\ [][Next]_vars

\* The event loop runs the callback of an armed timer.
FairSpec == Spec /\ WF_vars(loadingTimeout)

\* ------------------------------------------------------------------ useAuth
\* createContext<AuthContextType | undefined>(undefined): the value seen by a
\* consumer with no AuthProvider above it.
undefined == [defined |-> FALSE, value |-> [k \in {} |-> FALSE]]

\* The value AuthProvider hands to AuthContext.Provider.
providerValue ==
    [defined |-> TRUE,
     value |-> [user |-> user,
                session |-> session,
                isLoading |-> isLoading,
                signIn |-> "signIn",
                signUp |-> "signUp",
                signOut |-> "signOut",
                isPremium |-> isPremium]]

\* useContext(AuthContext) of a consumer inside or outside the provider.
useContext(inside) == IF inside THEN providerValue ELSE undefined

\* Mutant: useAuth returns the context without the undefined check.
useAuth_NoCheck(context) == [threw |-> FALSE, value |-> context.value]

\* useAuth from the context it reads: throws on undefined, else returns it.
useAuth(context) ==
    IF ~context.defined
    THEN [threw |-> TRUE, value |-> undefined.value]
    ELSE [threw |-> FALSE, value |-> context.value]

\* A consumer calls useAuth(); one rendered inside the provider exists only
\* while the provider is mounted.
useAuthCall(inside) ==
    /\ inside => mounted
    /\ LET r == useAuth(useContext(inside))
       IN lastUse' = [called |-> TRUE, inside |-> inside, threw |-> r.threw,
                      value |-> r.value]
    /\ UNCHANGED <<authState, mounted, subscribed, timer, pc, pcUser,
                   handlers, calls, lastCall, established>>

\* Consumers calling useAuth while the session is being determined.
NextUse ==
    \/ \E inside \in BOOLEAN : useAuthCall(inside)
    \/ \E s \in Sessions \cup {NoSession} : checkSessionResolves(s)
    \/ checkSessionThrows
    \/ \E o \in FetchOutcomes : checkSessionFetchSettles(o)
    \/ \E s \in Sessions \cup {NoSession} : onAuthStateChange(s)
    \/ \E u \in Users, o \in FetchOutcomes : onAuthStateChangeFetchSettles(u, o)
    \/ loadingTimeout
    \/ cleanup

UseAuthSpec == Init /\ [][NextUse]_vars

\* ===================================================================== claims
FetchesInFlight == HandlersInFlight + (IF pc = "fetchPremium" THEN 1 ELSE 0)

\* C1: in every reachable state user and session are both present or both
\* absent, and a present user is the user of the present session.
C1_UserSessionTogether ==
    /\ (user = NoUser) <=> (session = NoSession)
    /\ user # NoUser => session.user = user

\* C1 witness: the timer has fired and a later change-event has set both.
C1_Witness ==
    /\ timer = "fired"
    /\ user # NoUser
    /\ session # NoSession
    /\ pc = "done"

\* C2: the timer firing leaves the user and session of an already
\* authenticated state unchanged.
C2_TimerKeepsAuthenticated ==
    [][(timer = "armed" /\ timer' = "fired" /\ user # NoUser)
          => (user' = user /\ session' = session)]_vars

\* C3: whenever user is absent, isPremium is false.
C3_AbsentUserNotPremium == user = NoUser => ~isPremium

\* C4: when the last entitlement fetch in flight resolves with its row and a
\* user is current, isPremium is true only if the store's flag of the current
\* user is true (the value fetched for an earlier user is not left behind).
C4_PremiumOfCurrentUser ==
    [][(/\ \/ \E u \in Users : onAuthStateChangeFetchSettles(u, "data")
           \/ checkSessionFetchSettles("data")
        /\ FetchesInFlight' = 0
        /\ user' # NoUser
        /\ isPremium')
          => is_premium(user')]_vars

\* C5: the step in which the timer fires ends with isLoading false, and in
\* every run the timer fires unless the component is unmounted, also when no
\* provider call ever settles.
C5_LoadingFalseByTimer ==
    /\ [][(timer = "armed" /\ timer' = "fired") => ~isLoading']_vars
    /\ <>(timer = "fired" \/ ~mounted)

\* C5 witness: the timer has fired while getSession is still pending.
C5_Witness ==
    /\ timer = "fired"
    /\ pc = "getSession"
    /\ mounted
    /\ ~isLoading

\* C6: while the component stays mounted, isLoading true always leads to
\* isLoading false.
C6_LoadingAlwaysEnds == isLoading ~> (~isLoading \/ ~mounted)

\* C7: while a signIn, signUp or signOut call is in flight, isLoading is true.
C7_LoadingWhileCallInFlight == CallsInFlight > 0 => isLoading

\* C8: after teardown no step changes user, session, isLoading or isPremium.
C8_NoWriteAfterTeardown == [][~mounted => authState' = authState]_vars

\* C9: a signIn or signUp call whose provider call reports an error (as an
\* error value or thrown) exits by raising, with exactly one toast, which is
\* destructive, and with isLoading false.
C9_SignInUpErrorContract ==
    [][((\E op \in {"signIn", "signUp"} : calls'[op] < calls[op])
        /\ lastCall'.outcome # "ok")
          => (/\ lastCall'.result = "raised"
              /\ Len(lastCall'.toasts) = 1
              /\ lastCall'.toasts[1].variant = "destructive"
              /\ ~isLoading')]_vars

\* C9 witness: a signUp call has exited on an error value of the provider.
C9_Witness ==
    /\ lastCall.op = "signUp"
    /\ lastCall.outcome = "error"
    /\ lastCall.result = "raised"
    /\ ~isLoading

\* C10: a signOut call returns without raising and with isLoading false; on a
\* provider error (thrown or an error value) its only toast is destructive,
\* and the affirmative toast is emitted only on success.
C10_SignOutErrorContract ==
    [][(calls'["signOut"] < calls["signOut"])
          => (/\ lastCall'.result = "returned"
              /\ ~isLoading'
              /\ lastCall'.outcome # "ok"
                    => lastCall'.toasts = <<destructive("Sign out failed")>>
              /\ lastCall'.outcome = "ok"
                    => lastCall'.toasts = <<affirmative("Signed out")>>)]_vars

\* C11: when an entitlement fetch fails (its query throws) while mounted, user
\* and session stay as they are and isPremium is false afterwards.
C11_FailedFetchNotPremium ==
    [][(/\ mounted
        /\ \/ \E u \in Users : onAuthStateChangeFetchSettles(u, "throw")
           \/ checkSessionFetchSettles("throw"))
          => (~isPremium' /\ user' = user /\ session' = session)]_vars

\* C12: the steps of signIn, signUp and signOut (start and exit) leave user,
\* session and isPremium unchanged.
C12_CallsLeaveIdentity ==
    [][(calls' # calls) => UNCHANGED <<user, session, isPremium>>]_vars

\* C12 witness: a signOut call has succeeded and the user is still present
\* (the change-event has not been handled yet).
C12_Witness ==
    /\ lastCall.op = "signOut"
    /\ lastCall.outcome = "ok"
    /\ CallsInFlight = 0
    /\ user # NoUser
    /\ isPremium

\* C13: the timer cancels no provider call: when getSession resolves with a
\* user-bearing session, or a user-bearing change-event is handled, after the
\* timer has fired (while mounted), user and session are set to that session,
\* reverting the forced Unauthenticated state; and such an execution exists.
C13_LateResultStillApplies ==
    [][\A s \in Sessions :
          (/\ timer = "fired"
           /\ mounted
           /\ checkSessionResolves(s) \/ onAuthStateChange(s))
             => (user' = s.user /\ session' = s)]_vars

\* C13 witness: the timer fired while getSession was pending, and getSession
\* has since resolved with a session: user and session are present again.
C13_Witness ==
    /\ timer = "fired"
    /\ pc = "fetchPremium"
    /\ ~established
    /\ user = pcUser
    /\ session = [user |-> pcUser]
    /\ ~isLoading

\* C14: the timeout callback runs at most once (each run disarms the timer,
\* which is never re-armed), it does run in every execution that stays
\* mounted, and the state right after it has isLoading false and user and
\* session absent.
C14_TimeoutFiresOnce ==
    /\ [][loadingTimeout => (timer = "armed" /\ timer' = "fired")]_vars
    /\ [][timer # "armed" => timer' = timer]_vars
    /\ [][(timer = "armed" /\ timer' = "fired")
            => (~isLoading' /\ user' = NoUser /\ session' = NoSession)]_vars
    /\ <>(timer = "fired" \/ ~mounted)

\* C14 witness: the timer has fired before any provider call resolved.
C14_Witness ==
    /\ timer = "fired"
    /\ mounted
    /\ pc = "getSession"
    /\ ~established
    /\ lastCall = NoCall
    /\ CallsInFlight = 0
    /\ ~isLoading
    /\ user = NoUser
    /\ session = NoSession

\* C15: a change-event with no session handled while mounted ends with user
\* absent, session absent, isPremium false and isLoading false.
C15_NoSessionEventClears ==
    [][(mounted /\ onAuthStateChange(NoSession))
          => (/\ user' = NoUser
              /\ session' = NoSession
              /\ ~isPremium'
              /\ ~isLoading')]_vars

\* C15 witness: signOut has succeeded and the change-event that followed has
\* cleared the state (the timer has not fired).
C15_Witness ==
    /\ lastCall.op = "signOut"
    /\ lastCall.outcome = "ok"
    /\ established
    /\ timer = "armed"
    /\ mounted
    /\ FetchesInFlight = 0
    /\ user = NoUser
    /\ session = NoSession
    /\ ~isPremium
    /\ ~isLoading

\* C16: when getSession fails (it throws, or resolves with no session and an
\* error value), checkSession ends without raising, isLoading is false if
\* mounted, and unless a change-event has established a session the state is
\* Unauthenticated: user and session absent, isPremium false.
C16_FailedGetSession ==
    [][(checkSessionThrows \/ checkSessionResolves(NoSession))
          => (/\ pc' = "done"
              /\ mounted => ~isLoading'
              /\ ~established
                   => (user' = NoUser /\ session' = NoSession /\ ~isPremium'))]_vars

\* C16 witness: getSession has failed before any change-event, timer firing
\* or operation.
C16_Witness ==
    /\ pc = "done"
    /\ ~established
    /\ timer = "armed"
    /\ mounted
    /\ lastCall = NoCall
    /\ CallsInFlight = 0
    /\ ~isLoading
    /\ user = NoUser
    /\ ~isPremium

\* C17: teardown cancels the subscription and clears the timer, from every
\* state; after teardown the timer callback and the change-event handler do
\* not run or leave user, session, isLoading and isPremium unchanged.
C17_TeardownReleases ==
    /\ [][cleanup => (~subscribed' /\ timer' # "armed")]_vars
    /\ [][~mounted => (~subscribed' /\ timer' # "armed")]_vars
    /\ [][(/\ ~mounted
           /\ \/ loadingTimeout
              \/ \E s \in Sessions \cup {NoSession} : onAuthStateChange(s)
              \/ \E u \in Users, o \in FetchOutcomes :
                    onAuthStateChangeFetchSettles(u, o))
             => authState' = authState]_vars

\* C17 witness: unmounted before getSession settled and before the timer
\* fired: the subscription is cancelled and the timer is cleared.
C17_Witness ==
    /\ ~mounted
    /\ pc = "getSession"
    /\ timer = "cleared"
    /\ ~subscribed
    /\ isLoading

\* C18: useAuth outside an AuthProvider throws and returns nothing; inside it
\* never throws and returns the object exposing user, session, isLoading,
\* isPremium, signIn, signUp and signOut.
C18_UseAuthScope ==
    lastUse.called =>
        IF lastUse.inside
        THEN /\ ~lastUse.threw
             /\ DOMAIN lastUse.value = {"user", "session", "isLoading",
                                        "isPremium", "signIn", "signUp",
                                        "signOut"}
        ELSE /\ lastUse.threw
             /\ DOMAIN lastUse.value = {}

\* C18 witness: a consumer outside the provider has called useAuth, which
\* threw.
C18_Witness ==
    /\ lastUse.called
    /\ ~lastUse.inside
    /\ lastUse.threw

\* C19: getSession resolving with no session, or failing, leaves user,
\* session and isPremium unchanged and writes only isLoading (false, when
\* mounted): a state a change-event established is not cleared.
C19_NoSessionFetchFrame ==
    [][(checkSessionResolves(NoSession) \/ checkSessionThrows)
          => (/\ UNCHANGED <<user, session, isPremium>>
              /\ isLoading' = (IF mounted THEN FALSE ELSE isLoading))]_vars

\* C19 witness: getSession has resolved and the user set by a change-event,
\* whose entitlement fetch is still pending, is present.
C19_Witness ==
    /\ pc = "done"
    /\ established
    /\ mounted
    /\ timer = "armed"
    /\ user = 1
    /\ handlers[1] = 1
    /\ HandlersInFlight = 1
    /\ ~isPremium
    /\ ~isLoading
    /\ lastCall = NoCall
    /\ CallsInFlight = 0

\* C20: a change-event handler that finishes while mounted leaves isLoading
\* false (at once for a no-session event, at the settling of its entitlement
\* fetch for a user-bearing one); the handling of a user-bearing event itself
\* does not write isLoading, so a handler whose fetch never settles never
\* writes it.  (A handler starts awaiting its fetch in the step that raises
\* handlers[u] and finishes in the step that lowers it.)
C20_HandlerClearsLoadingAtEnd ==
    /\ [][(/\ mounted
           /\ \/ onAuthStateChange(NoSession)
              \/ \E u \in Users : handlers'[u] < handlers[u])
             => ~isLoading']_vars
    /\ [][(\E u \in Users : handlers'[u] > handlers[u])
             => isLoading' = isLoading]_vars

\* C20 witness: a user-bearing change-event has been handled and its fetch
\* has not settled: isLoading is still true.
C20_Witness ==
    /\ established
    /\ mounted
    /\ HandlersInFlight = 1
    /\ user # NoUser
    /\ pc = "getSession"
    /\ timer = "armed"
    /\ CallsInFlight = 0
    /\ lastCall = NoCall
    /\ isLoading
====
